---- MODULE Spec2Model ----
(***************************************************************************)
(* Model of src/cli.cjs: the credential lifecycle (login, refreshToken,    *)
(* saveTokens, loadTokens), the three directory calls of main(), the MQTT  *)
(* session with its connect/close/reconnect events, and the HTTP control   *)
(* surface created in the connect handler.                                 *)
(*                                                                         *)
(* A JSON object is a function from the keys it carries to their values;   *)
(* a key the object lacks reads as JavaScript's undefined.  Times are      *)
(* epoch milliseconds.  Random values (verifier, uuid) are drawn from      *)
(* small sets; the per-command cid and timestamp of a Direct Command are   *)
(* left out of the payload record.                                         *)
(***************************************************************************)
EXTENDS Integers, Sequences, FiniteSets, TLC

VARIABLES
    now,        \* what Date.now() returns
    file,       \* CONFIG.tokenFile: NoFile or the text last written
    pc,         \* where main()/login() stands, or how the process ended
    loaded,     \* login's local `tokens` (result of loadTokens)
    verifier,   \* login's local `verifier`
    pasted,     \* the prompt callback's `pastedUrl`
    held,       \* main's local `tokens`: what login() resolved to
    ids,        \* main's locals accessToken, idToken, userId, devices, myDevice, signature
    events,     \* startup trace: requests sent, prompts, file writes, reports
    mqtt,       \* state of the mqtt client
    attempts,   \* connection grants the mqtt client has put on the wire
    subs,       \* topics passed to client.subscribe, one entry per call
    servers,    \* http servers created by connect handlers
    listening,  \* http servers bound to CONFIG.serverPort
    published,  \* messages passed to client.publish
    http,       \* control surface: requests received and answered, the last pathname and status
    inbound     \* 'message' events delivered to the handler of line 277

vars == <<now, file, pc, loaded, verifier, pasted, held, ids, events, mqtt, attempts,
          subs, servers, listening, published, http, inbound>>

sessionVars == <<mqtt, attempts, subs, servers, listening, published, http, inbound>>

----------------------------------------------------------------------------
(* Bounds of the model *)

MaxTicks == 2
MaxAttempts == 3
MaxRequests == 2
MaxInbound == 1

(* Program constants *)

ExpiryMargin == 60000
DefaultExpiresIn == 3600
MsPerSecond == 1000

\* the clock is observed in steps of one second
TickMs == MsPerSecond

----------------------------------------------------------------------------
(* JavaScript values *)

Undefined == "undefined"
None == [none |-> TRUE]
NoFile == [exists |-> FALSE]
FileWith(text) == [exists |-> TRUE, text |-> text]

Has(obj, key) == key \in DOMAIN obj

\* obj[key] for a string-valued key; undefined when the key is missing
Get(obj, key) == IF Has(obj, key) THEN obj[key] ELSE Undefined

\* !!obj[key] for a string-valued key
TruthyStr(obj, key) == Has(obj, key) /\ obj[key] # "" /\ obj[key] # Undefined

\* obj[key] || dflt for a number-valued key
NumOr(obj, key, dflt) == IF Has(obj, key) /\ obj[key] # 0 THEN obj[key] ELSE dflt

----------------------------------------------------------------------------
(* Token store *)

KeyOrder == <<"access_token", "id_token", "refresh_token", "expires_in",
              "expires_at", "error">>

\* JSON.stringify losing the refresh token on the way to the disk
JSONStringifyLossy(obj) ==
    LET kept == SelectSeq(KeyOrder, LAMBDA k : Has(obj, k) /\ k # "refresh_token")
    IN  [i \in 1..Len(kept) |-> <<kept[i], obj[kept[i]]>>]

\* JSON.stringify: the object's members as a text of key/value pairs
JSONStringify(obj) ==
    LET present == SelectSeq(KeyOrder, LAMBDA k : Has(obj, k))
    IN  [i \in 1..Len(present) |-> <<present[i], obj[present[i]]>>]

\* JSON.parse: the object a text of key/value pairs denotes
JSONParse(text) ==
    [k \in {text[i][1] : i \in 1..Len(text)} |->
        LET i == CHOOSE j \in 1..Len(text) : text[j][1] = k IN text[i][2]]

\* saveTokens line 49: the object with expires_at set from the clock
WithExpiry(tokens, t) ==
    ("expires_at" :> (t + NumOr(tokens, "expires_in", DefaultExpiresIn) * MsPerSecond))
        @@ tokens

\* loadTokens: null when the file does not exist
loadTokens == IF file.exists THEN JSONParse(file.text) ELSE None

\* the comparison of line 78 turned around
StillValidFlipped(tokens, t) ==
    Has(tokens, "expires_at") /\ t > tokens["expires_at"] - ExpiryMargin

\* login line 78
StillValid(tokens, t) ==
    Has(tokens, "expires_at") /\ t < tokens["expires_at"] - ExpiryMargin

----------------------------------------------------------------------------
(* PKCE *)

Verifiers == {"v1", "v2"}

\* the verifier itself goes out as the challenge, unhashed
generateChallengePlain(v) == <<"plain", v>>

\* generateChallenge: base64url(sha256(verifier)), one-way and injective here
generateChallenge(v) == <<"S256", v>>

----------------------------------------------------------------------------
(* What the environment can answer *)

\* bodies the token endpoint can answer with, tagged by the grant they answer
TokenResponses(tag) ==
    LET at == "access_" \o tag
        it == "id_" \o tag
        rt == "refresh_" \o tag
    IN  { [access_token |-> at, id_token |-> it, refresh_token |-> rt, expires_in |-> 7200],
          [access_token |-> at, id_token |-> it, refresh_token |-> rt],
          [access_token |-> at, id_token |-> it, expires_in |-> 0],
          [access_token |-> at, refresh_token |-> rt, expires_in |-> 7200],
          [id_token |-> it, refresh_token |-> rt, expires_in |-> 7200],
          [access_token |-> at, id_token |-> it, refresh_token |-> rt, expires_in |-> 60,
           expires_at |-> 5],
          [error |-> "invalid_grant"] }

\* fetch() rejects, or the body is not JSON
NetworkFailure == [failed |-> TRUE]

TokenOutcomes(tag) == TokenResponses(tag) \cup {NetworkFailure}

\* what the operator can paste at the prompt, after the quotes are stripped and
\* the custom scheme is replaced: a text new URL() rejects, or a URL with a query
PastedUrls ==
    { [parses |-> FALSE],
      [parses |-> TRUE, query |-> <<>>],
      [parses |-> TRUE, query |-> << <<"state", "s1">> >>],
      [parses |-> TRUE, query |-> << <<"code", "">> >>],
      [parses |-> TRUE, query |-> << <<"state", "s1">>, <<"code", "c1">> >>] }

Null == "null"

\* URLSearchParams.get: the first value of the name, or null
SearchParamsGet(query, name) ==
    IF \E i \in 1..Len(query) : query[i][1] = name
    THEN query[CHOOSE i \in 1..Len(query) :
                 /\ query[i][1] = name
                 /\ \A j \in 1..(i-1) : query[j][1] # name][2]
    ELSE Null

\* line 105 left out: whatever get() returned is sent on
NoCodeUnchecked(code) == FALSE

\* !code, line 105
NoCode(code) == code = Null \/ code = ""

\* token files a previous run, or the operator, can have left behind
StoredBundles ==
    { ("expires_at" :> e) @@ b :
        e \in {0, ExpiryMargin, ExpiryMargin + TickMs, 7200 * MsPerSecond},
        b \in { [access_token |-> "access_0", id_token |-> "id_0", refresh_token |-> "refresh_0",
                 expires_in |-> 7200],
                [access_token |-> "access_0", refresh_token |-> "refresh_0"] } }
    \cup { [access_token |-> "access_0", id_token |-> "id_0", refresh_token |-> "refresh_0"] }

----------------------------------------------------------------------------
(* Startup trace *)

TokenRequest(grant, credential, code_verifier) ==
    [type |-> "token_request", grant |-> grant, credential |-> credential,
     code_verifier |-> code_verifier]
AuthUrl(challenge) ==
    [type |-> "auth_url", code_challenge |-> challenge, code_challenge_method |-> "S256"]
Prompt == [type |-> "prompt"]
Report(msg) == [type |-> "report", msg |-> msg]
\* saveTokens is entered with the answer of the token endpoint as its argument
SaveCall(tokens) == [type |-> "save", tokens |-> tokens]
ApiCall(endpoint, bearer, body) ==
    [type |-> "api_call", endpoint |-> endpoint, bearer |-> bearer, body |-> body]

----------------------------------------------------------------------------
(* Initial state: the process starts with whatever token file is on disk *)

NoIds == [accessToken |-> Undefined, idToken |-> Undefined, userId |-> Undefined,
          devices |-> None, myDevice |-> None, signature |-> Undefined]

InitWith(clock, bundles) ==
    /\ now \in clock
    /\ file \in {NoFile} \cup {FileWith(JSONStringify(b)) : b \in bundles}
    /\ pc = "start"
    /\ loaded = None
    /\ verifier = Undefined
    /\ pasted = None
    /\ held = None
    /\ ids = NoIds
    /\ events = <<>>
    /\ mqtt = "none"
    /\ attempts = <<>>
    /\ subs = <<>>
    /\ servers = 0
    /\ listening = 0
    /\ published = <<>>
    /\ http = [requests |-> 0, answered |-> 0, pathname |-> Undefined, status |-> 0]
    /\ inbound = 0

----------------------------------------------------------------------------
(* login(), lines 75-122 *)

\* lines 88-99: a new verifier, the authorization URL is shown, the prompt opens
InteractiveStart(v, trace) ==
    /\ verifier' = v
    /\ events' = trace \o <<AuthUrl(generateChallenge(v)), Prompt>>
    /\ pc' = "prompt"

\* lines 76-80: a stored bundle that is still valid is returned as it is
LoginValid ==
    /\ pc = "start"
    /\ loadTokens # None
    /\ StillValid(loadTokens, now)
    /\ loaded' = loadTokens
    /\ held' = loadTokens
    /\ pc' = "login_returned"
    /\ UNCHANGED <<now, file, verifier, pasted, ids, events, sessionVars>>

\* an expired bundle sends login straight to the prompt, without a refresh
LoginRefreshSkipped ==
    /\ pc = "start"
    /\ loadTokens # None
    /\ ~StillValid(loadTokens, now)
    /\ loaded' = loadTokens
    /\ InteractiveStart("v1", events)
    /\ UNCHANGED <<now, file, pasted, held, ids, sessionVars>>

\* lines 81-83 and 124-132: a stored bundle that is not valid is refreshed
LoginRefresh ==
    /\ pc = "start"
    /\ loadTokens # None
    /\ ~StillValid(loadTokens, now)
    /\ loaded' = loadTokens
    /\ events' = Append(events, Report("Token expired. Refreshing..."))
                  \o <<TokenRequest("refresh_token", Get(loadTokens, "refresh_token"), Undefined)>>
    /\ pc' = "refreshing"
    /\ UNCHANGED <<now, file, verifier, pasted, held, ids, sessionVars>>

\* lines 76-77 and 88-99: no stored bundle, interactive login
LoginInteractive(v) ==
    /\ pc = "start"
    /\ loadTokens = None
    /\ loaded' = loadTokens
    /\ InteractiveStart(v, events)
    /\ UNCHANGED <<now, file, pasted, held, ids, sessionVars>>

\* the token endpoint's answer is an error: fetch rejected or data.error is set
ExchangeFailed(resp) == IF resp = NetworkFailure THEN TRUE ELSE TruthyStr(resp, "error")

\* the bundle goes back to the caller without the write of line 50
ReturnUnsaved(data, t) ==
    /\ file' = file
    /\ held' = WithExpiry(data, t)
    /\ pc' = "login_returned"

\* saveTokens, lines 48-52, then the bundle goes back to the caller
SaveAndReturn(data, t) ==
    /\ file' = FileWith(JSONStringify(WithExpiry(data, t)))
    /\ held' = WithExpiry(data, t)
    /\ pc' = "login_returned"

\* the answer is laid over the bundle that was loaded, as in {...old, ...data}
RefreshOkMerged(resp, dt) ==
    /\ pc = "refreshing"
    /\ ~ExchangeFailed(resp)
    /\ now' = now + dt
    /\ SaveAndReturn(resp @@ loaded, now')
    /\ events' = events \o <<SaveCall(resp), Report("Tokens saved to disk.")>>
    /\ UNCHANGED <<loaded, verifier, pasted, ids, sessionVars>>

\* lines 133-136: the refresh succeeded
RefreshOk(resp, dt) ==
    /\ pc = "refreshing"
    /\ ~ExchangeFailed(resp)
    /\ now' = now + dt
    /\ SaveAndReturn(resp, now')
    /\ events' = events \o <<SaveCall(resp), Report("Tokens saved to disk.")>>
    /\ UNCHANGED <<loaded, verifier, pasted, ids, sessionVars>>

\* lines 134, 84 and 88-99: the refresh failed, login falls through to the prompt
RefreshFailed(resp, v) ==
    /\ pc = "refreshing"
    /\ ExchangeFailed(resp)
    /\ InteractiveStart(v, Append(events, Report("Refresh failed. Restarting login flow.")))
    /\ UNCHANGED <<now, file, loaded, pasted, held, ids, sessionVars>>

\* line 119 without the exit: login starts over
LoginFailedRetries(msg) ==
    /\ events' = Append(events, Report("Login failed: " \o msg))
    /\ pc' = "start"

\* line 119: console.error and process.exit(1)
LoginFailed(msg) ==
    /\ events' = Append(events, Report("Login failed: " \o msg))
    /\ pc' = "exited"

\* lines 99-105: the pasted text is no URL, or it carries no code
PasteRejected(url) ==
    /\ pc = "prompt"
    /\ pasted' = url
    /\ \/ ~url.parses /\ LoginFailed("Invalid URL")
       \/ url.parses /\ NoCode(SearchParamsGet(url.query, "code")) /\ LoginFailed("No code found")
    /\ UNCHANGED <<now, file, loaded, verifier, held, ids, sessionVars>>

\* lines 99-114: the code is sent to the token endpoint with the verifier
PasteAccepted(url) ==
    /\ pc = "prompt"
    /\ pasted' = url
    /\ url.parses
    /\ ~NoCode(SearchParamsGet(url.query, "code"))
    /\ events' = Append(events, TokenRequest("authorization_code",
                                             SearchParamsGet(url.query, "code"), verifier))
    /\ pc' = "exchanging"
    /\ UNCHANGED <<now, file, loaded, verifier, held, ids, sessionVars>>

\* lines 115-118: the exchange succeeded
ExchangeOk(resp, dt) ==
    /\ pc = "exchanging"
    /\ ~ExchangeFailed(resp)
    /\ now' = now + dt
    /\ SaveAndReturn(resp, now')
    /\ events' = events \o <<SaveCall(resp), Report("Tokens saved to disk.")>>
    /\ UNCHANGED <<loaded, verifier, pasted, ids, sessionVars>>

\* lines 116 and 119: the exchange failed, the process exits
ExchangeRejected(resp) ==
    /\ pc = "exchanging"
    /\ ExchangeFailed(resp)
    /\ LoginFailed(IF resp = NetworkFailure THEN "fetch failed" ELSE resp["error"])
    /\ UNCHANGED <<now, file, loaded, verifier, pasted, held, ids, sessionVars>>

\* how far the clock has moved when an answer of the token endpoint is handled
Delays == {dt \in {0, TickMs} : now + dt <= MaxTicks * TickMs}

----------------------------------------------------------------------------
(* Directory calls of main(), lines 140-160, through apiCall, lines 62-72 *)

Devices == [d1 |-> [thingName |-> "t1", friendlyName |-> "f1"],
            d2 |-> [thingName |-> "t2", friendlyName |-> "f2"],
            d3 |-> [friendlyName |-> "f3"]]

\* answers apiCall throws on: a status outside 200-299, with the body text
HttpRejections == { [ok |-> FALSE, status |-> "401", text |-> "denied"],
                    [ok |-> FALSE, status |-> "500", text |-> "oops"] }

Rejections == HttpRejections \cup {NetworkFailure}

UserIdResponses == { [ok |-> TRUE, json |-> [userId |-> "u1"]] } \cup Rejections

DeviceResponses == { [ok |-> TRUE, json |-> <<>>],
                     [ok |-> TRUE, json |-> <<Devices.d1>>],
                     [ok |-> TRUE, json |-> <<Devices.d2, Devices.d1>>],
                     [ok |-> TRUE, json |-> <<Devices.d3, Devices.d1>>] } \cup Rejections

SignatureResponses == { [ok |-> TRUE, json |-> [signature |-> "sig1"]],
                        [ok |-> TRUE, json |-> [message |-> "m1"]] } \cup Rejections

UUIDs == {"uuid1"}

\* line 64: the Authorization header apiCall sends
BearerHeader(useBearer, token) ==
    IF useBearer /\ token # Undefined /\ token # "" THEN token ELSE Undefined

\* line 70 or a rejected fetch
ApiFailed(r) == IF r = NetworkFailure THEN TRUE ELSE ~r.ok

\* lines 285-287: the error is reported, main() returns
ApplicationError(msg) ==
    /\ events' = Append(events, Report("Application Error: " \o msg))
    /\ pc' = "app_error"

\* lines 143-145: the bundle carries no id_token
IdTokenMissing ==
    /\ pc = "login_returned"
    /\ ~TruthyStr(held, "id_token")
    /\ ids' = [ids EXCEPT !.accessToken = Get(held, "access_token"),
                          !.idToken = Get(held, "id_token")]
    /\ ApplicationError("ID Token missing.")
    /\ UNCHANGED <<now, file, loaded, verifier, pasted, held, sessionVars>>

\* lines 143-148: the account id is requested with the id token in the body
FetchUserId ==
    /\ pc = "login_returned"
    /\ TruthyStr(held, "id_token")
    /\ ids' = [ids EXCEPT !.accessToken = Get(held, "access_token"),
                          !.idToken = Get(held, "id_token")]
    /\ events' = Append(events, ApiCall("/user/self/get-id",
                                        BearerHeader(FALSE, Undefined), held["id_token"]))
    /\ pc' = "get_id"
    /\ UNCHANGED <<now, file, loaded, verifier, pasted, held, sessionVars>>

\* the failed call is sent again instead of being reported
DirectoryCallRetried(r) ==
    /\ pc \in {"get_id", "get_devices", "get_sig"}
    /\ ApiFailed(r)
    /\ events' = Append(events, events[Len(events)])
    /\ UNCHANGED <<now, file, pc, loaded, verifier, pasted, held, ids, sessionVars>>

\* line 70 and lines 285-287: a directory call failed
DirectoryCallFailed(r) ==
    /\ pc \in {"get_id", "get_devices", "get_sig"}
    /\ ApiFailed(r)
    /\ ApplicationError(IF r = NetworkFailure THEN "fetch failed"
                        ELSE "API Error " \o r.status \o ": " \o r.text)
    /\ UNCHANGED <<now, file, loaded, verifier, pasted, held, ids, sessionVars>>

\* the signature is requested together with the devices, without awaiting them
FetchDevicesUnawaited(r) ==
    /\ pc = "get_id"
    /\ ~ApiFailed(r)
    /\ ids' = [ids EXCEPT !.userId = Get(r.json, "userId")]
    /\ events' = events \o <<ApiCall("/user/self/device",
                                     BearerHeader(TRUE, ids.accessToken), Undefined),
                             ApiCall("/user/self/signature",
                                     BearerHeader(TRUE, ids.accessToken), Undefined)>>
    /\ pc' = "get_devices"
    /\ UNCHANGED <<now, file, loaded, verifier, pasted, held, sessionVars>>

\* lines 149-152: the account id arrived, the devices are requested
FetchDevices(r) ==
    /\ pc = "get_id"
    /\ ~ApiFailed(r)
    /\ ids' = [ids EXCEPT !.userId = Get(r.json, "userId")]
    /\ events' = Append(events, ApiCall("/user/self/device",
                                        BearerHeader(TRUE, ids.accessToken), Undefined))
    /\ pc' = "get_devices"
    /\ UNCHANGED <<now, file, loaded, verifier, pasted, held, sessionVars>>

\* the check of line 154 left out: main goes on to the signature
NoDevicesUnchecked(r) ==
    /\ pc = "get_devices"
    /\ ~ApiFailed(r)
    /\ r.json = <<>>
    /\ ids' = [ids EXCEPT !.devices = [list |-> r.json]]
    /\ events' = Append(events, ApiCall("/user/self/signature",
                                        BearerHeader(TRUE, ids.accessToken), Undefined))
    /\ pc' = "get_sig"
    /\ UNCHANGED <<now, file, loaded, verifier, pasted, held, sessionVars>>

\* lines 153-154: the device list is empty
NoDevices(r) ==
    /\ pc = "get_devices"
    /\ ~ApiFailed(r)
    /\ r.json = <<>>
    /\ ids' = [ids EXCEPT !.devices = [list |-> r.json]]
    /\ events' = Append(events, Report("No devices found."))
    /\ pc' = "no_devices"
    /\ UNCHANGED <<now, file, loaded, verifier, pasted, held, sessionVars>>

\* the last device of the list is taken instead of the first
FetchSignatureLast(r) ==
    /\ pc = "get_devices"
    /\ ~ApiFailed(r)
    /\ r.json # <<>>
    /\ ids' = [ids EXCEPT !.devices = [list |-> r.json], !.myDevice = r.json[Len(r.json)]]
    /\ events' = Append(events, ApiCall("/user/self/signature",
                                        BearerHeader(TRUE, ids.accessToken), Undefined))
    /\ pc' = "get_sig"
    /\ UNCHANGED <<now, file, loaded, verifier, pasted, held, sessionVars>>

\* lines 153-158: the first device is taken, the signature is requested
FetchSignature(r) ==
    /\ pc = "get_devices"
    /\ ~ApiFailed(r)
    /\ r.json # <<>>
    /\ ids' = [ids EXCEPT !.devices = [list |-> r.json], !.myDevice = r.json[1]]
    /\ events' = Append(events, ApiCall("/user/self/signature",
                                        BearerHeader(TRUE, ids.accessToken), Undefined))
    /\ pc' = "get_sig"
    /\ UNCHANGED <<now, file, loaded, verifier, pasted, held, sessionVars>>

\* lines 163-177: the grant mqtt.connect is given
Grant(userId, uuid, accessToken, signature) ==
    [clientId |-> <<userId, uuid>>, token |-> accessToken, signature |-> signature]

\* lines 159-177: the signature arrived, the mqtt client starts connecting
Connect(r, uuid) ==
    /\ pc = "get_sig"
    /\ ~ApiFailed(r)
    /\ ids' = [ids EXCEPT !.signature = Get(r.json, "signature")]
    /\ attempts' = <<Grant(ids.userId, uuid, ids.accessToken, ids'.signature)>>
    /\ mqtt' = "connecting"
    /\ pc' = "running"
    /\ UNCHANGED <<now, file, loaded, verifier, pasted, held, events,
                   subs, servers, listening, published, http, inbound>>

----------------------------------------------------------------------------
(* The MQTT session and the control surface, lines 179-283 *)

\* lines 183-187
shadowTopic(thingName) == <<"$aws/things", thingName, "shadow/update">>
acceptedTopic(thingName) == <<"$aws/things", thingName, "shadow/update", "accepted">>
ncpTopic(thingName) == <<"da_ctrl", thingName, "to_ncp">>

\* the device the connect handler's closures refer to
thing == Get(ids.myDevice, "thingName")

\* lines 221 and 224
ShadowMessage(powerOn) ==
    [topic |-> shadowTopic(thing), payload |-> [state |-> [desired |-> [powerOn |-> powerOn]]]]

\* lines 194-210
setMode(value) ==
    [topic |-> ncpTopic(thing),
     payload |-> [type |-> "command", cn |-> "setPort", ct |-> "mobile",
                  data |-> [portName |-> "Control", properties |-> [D0310C |-> value]]]]

Paths == {"/", "/on", "/off", "/auto", "/low", "/medium", "/high", "/status"}

\* the values of /low and /medium exchanged
CommandSwapped(pathname) ==
    CASE pathname = "/on" -> <<ShadowMessage(TRUE)>>
      [] pathname = "/off" -> <<ShadowMessage(FALSE)>>
      [] pathname = "/auto" -> <<setMode(0)>>
      [] pathname = "/low" -> <<setMode(1)>>
      [] pathname = "/medium" -> <<setMode(17)>>
      [] pathname = "/high" -> <<setMode(18)>>
      [] OTHER -> <<>>

\* lines 219-237: what a request publishes, if anything
Command(pathname) ==
    CASE pathname = "/on" -> <<ShadowMessage(TRUE)>>
      [] pathname = "/off" -> <<ShadowMessage(FALSE)>>
      [] pathname = "/auto" -> <<setMode(0)>>
      [] pathname = "/low" -> <<setMode(17)>>
      [] pathname = "/medium" -> <<setMode(1)>>
      [] pathname = "/high" -> <<setMode(18)>>
      [] OTHER -> <<>>

\* lines 240-269: the status the request is answered with
StatusFor(pathname) == IF pathname = "/" THEN 200 ELSE 204

\* the handler subscribes on the first connect only
OnConnectSubscribesOnce ==
    /\ pc = "running"
    /\ mqtt = "connecting"
    /\ mqtt' = "connected"
    /\ subs' = IF subs = <<>> THEN Append(subs, acceptedTopic(thing)) ELSE subs
    /\ servers' = servers + 1
    /\ IF listening = 0
       THEN listening' = 1 /\ pc' = pc
       ELSE listening' = listening /\ pc' = "crashed"
    /\ UNCHANGED <<now, file, loaded, verifier, pasted, held, ids, events, attempts,
                   published, http, inbound>>

\* lines 179-275: the 'connect' event.  Every connect subscribes and creates a
\* server; a second server cannot bind the port, and its 'error' event has no
\* listener, which ends the process.
OnConnect ==
    /\ pc = "running"
    /\ mqtt = "connecting"
    /\ mqtt' = "connected"
    /\ subs' = Append(subs, acceptedTopic(thing))
    /\ servers' = servers + 1
    /\ IF listening = 0
       THEN listening' = 1 /\ pc' = pc
       ELSE listening' = listening /\ pc' = "crashed"
    /\ UNCHANGED <<now, file, loaded, verifier, pasted, held, ids, events, attempts,
                   published, http, inbound>>

\* line 283: the transport closed, the client waits reconnectPeriod
OnClose ==
    /\ pc = "running"
    /\ mqtt \in {"connecting", "connected"}
    /\ mqtt' = "offline"
    /\ UNCHANGED <<now, file, pc, loaded, verifier, pasted, held, ids, events, attempts,
                   subs, servers, listening, published, http, inbound>>

\* line 167, reconnectPeriod: the client connects again with the options it holds
Reconnect ==
    /\ pc = "running"
    /\ mqtt = "offline"
    /\ Len(attempts) < MaxAttempts
    /\ attempts' = Append(attempts, attempts[1])
    /\ mqtt' = "connecting"
    /\ UNCHANGED <<now, file, pc, loaded, verifier, pasted, held, ids, events,
                   subs, servers, listening, published, http, inbound>>

\* line 282: an 'error' event is logged, nothing else happens
OnError ==
    /\ pc = "running"
    /\ mqtt # "none"
    /\ UNCHANGED vars

\* lines 277-280: a message on a subscribed topic arrives and is dropped
OnMessage ==
    /\ pc = "running"
    /\ mqtt = "connected"
    /\ subs # <<>>
    /\ inbound < MaxInbound
    /\ inbound' = inbound + 1
    /\ UNCHANGED <<now, file, pc, loaded, verifier, pasted, held, ids, events, mqtt, attempts,
                   subs, servers, listening, published, http>>

\* the handler holds the answer back until an accepted-topic message has come in
HttpRequestAwaitsEcho(pathname) ==
    /\ pc = "running"
    /\ listening = 1
    /\ http.requests < MaxRequests
    /\ published' = published \o Command(pathname)
    /\ http' = [requests |-> http.requests + 1,
                answered |-> IF Command(pathname) = <<>> \/ inbound > 0
                             THEN http.answered + 1 ELSE http.answered,
                pathname |-> pathname, status |-> StatusFor(pathname)]
    /\ UNCHANGED <<now, file, pc, loaded, verifier, pasted, held, ids, events, mqtt, attempts,
                   subs, servers, listening, inbound>>

\* lines 213-270: a request with a well-formed URL and Host header
HttpRequest(pathname) ==
    /\ pc = "running"
    /\ listening = 1
    /\ http.requests < MaxRequests
    /\ published' = published \o Command(pathname)
    /\ http' = [requests |-> http.requests + 1, answered |-> http.answered + 1,
                pathname |-> pathname, status |-> StatusFor(pathname)]
    /\ UNCHANGED <<now, file, pc, loaded, verifier, pasted, held, ids, events, mqtt, attempts,
                   subs, servers, listening, inbound>>

\* line 214: new URL() throws on a request target such as "//", or on a Host
\* header that names no host; nothing catches it and the process ends
HttpMalformed ==
    /\ pc = "running"
    /\ listening = 1
    /\ http.requests < MaxRequests
    /\ http' = [http EXCEPT !.requests = @ + 1, !.pathname = Undefined]
    /\ pc' = "crashed"
    /\ UNCHANGED <<now, file, loaded, verifier, pasted, held, ids, events, mqtt, attempts,
                   subs, servers, listening, published, inbound>>

----------------------------------------------------------------------------
(* The program: every action, under an environment kept small enough for the
   session to be explored: the clock stands still during startup, the token
   endpoint answers in one of four ways and one stored bundle of each kind
   is on disk. *)

SessionBundles ==
    { [access_token |-> "access_0", id_token |-> "id_0", refresh_token |-> "refresh_0",
       expires_in |-> 7200, expires_at |-> e] : e \in {0, 7200 * MsPerSecond} }

SessionTokenOutcomes(tag) ==
    { [access_token |-> "access_" \o tag, id_token |-> "id_" \o tag,
       refresh_token |-> "refresh_" \o tag, expires_in |-> 7200],
      [id_token |-> "id_" \o tag, refresh_token |-> "refresh_" \o tag, expires_in |-> 7200],
      [access_token |-> "access_" \o tag, refresh_token |-> "refresh_" \o tag],
      [error |-> "invalid_grant"],
      NetworkFailure }

Init == InitWith({0}, SessionBundles)

Directory ==
    \/ IdTokenMissing
    \/ FetchUserId
    \/ \E r \in Rejections : DirectoryCallFailed(r)
    \/ \E r \in UserIdResponses : FetchDevices(r)
    \/ \E r \in DeviceResponses : NoDevices(r)
    \/ \E r \in DeviceResponses : FetchSignature(r)
    \/ \E r \in SignatureResponses, uuid \in UUIDs : Connect(r, uuid)

Session ==
    \/ OnConnect
    \/ OnClose
    \/ Reconnect
    \/ OnError
    \/ OnMessage
    \/ \E pathname \in Paths : HttpRequest(pathname)
    \/ HttpMalformed

Next ==
    \/ LoginValid
    \/ LoginRefresh
    \/ LoginInteractive("v1")
    \/ \E resp \in SessionTokenOutcomes("r") : RefreshOk(resp, 0)
    \/ \E resp \in SessionTokenOutcomes("r") : RefreshFailed(resp, "v1")
    \/ \E url \in PastedUrls : PasteRejected(url)
    \/ \E url \in PastedUrls : PasteAccepted(url)
    \/ \E resp \in SessionTokenOutcomes("c") : ExchangeOk(resp, 0)
    \/ \E resp \in SessionTokenOutcomes("c") : ExchangeRejected(resp)
    \/ Directory
    \/ Session

Spec == Init /\ [][Next]_vars

----------------------------------------------------------------------------
(* login() alone, lines 75-137, under every stored bundle, clock reading,
   pasted text and answer of the token endpoint listed above *)

LoginInit == InitWith({0, TickMs}, StoredBundles)

LoginNext ==
    \/ LoginValid
    \/ LoginRefresh
    \/ \E v \in Verifiers : LoginInteractive(v)
    \/ \E resp \in TokenOutcomes("r"), dt \in Delays : RefreshOk(resp, dt)
    \/ \E resp \in TokenOutcomes("r"), v \in Verifiers : RefreshFailed(resp, v)
    \/ \E url \in PastedUrls : PasteRejected(url)
    \/ \E url \in PastedUrls : PasteAccepted(url)
    \/ \E resp \in TokenOutcomes("c"), dt \in Delays : ExchangeOk(resp, dt)
    \/ \E resp \in TokenOutcomes("c") : ExchangeRejected(resp)

LoginSpec == LoginInit /\ [][LoginNext]_vars

----------------------------------------------------------------------------
(* Reading the startup trace *)

IsRefreshRequest(e) == e.type = "token_request" /\ e.grant = "refresh_token"
IsCodeRequest(e) == e.type = "token_request" /\ e.grant = "authorization_code"
IsTokenRequest(e) == e.type = "token_request"
IsAuthUrl(e) == e.type = "auth_url"
IsPrompt(e) == e.type = "prompt"
IsApiCall(e) == e.type = "api_call"
IsInteractive(e) == IsAuthUrl(e) \/ IsPrompt(e) \/ IsCodeRequest(e)
IsReport(e, msg) == e.type = "report" /\ e.msg = msg
IsLoginFailure(e) ==
    e.type = "report" /\ e.msg \in {"Login failed: Invalid URL", "Login failed: No code found",
                                    "Login failed: fetch failed", "Login failed: invalid_grant"}
IsRefreshFailure(e) == IsReport(e, "Refresh failed. Restarting login flow.")
IsApplicationError(e) ==
    e.type = "report" /\ e.msg \in {"Application Error: ID Token missing.",
                                    "Application Error: fetch failed",
                                    "Application Error: API Error 401: denied",
                                    "Application Error: API Error 500: oops"}

\* where in the trace the events of a kind stand
AuthUrls == {i \in 1..Len(events) : IsAuthUrl(events[i])}
ApiCalls == {i \in 1..Len(events) : IsApiCall(events[i])}
LoginFailures == {i \in 1..Len(events) : IsLoginFailure(events[i])}
ApplicationErrors == {i \in 1..Len(events) : IsApplicationError(events[i])}
CodeRequests == {i \in 1..Len(events) : IsCodeRequest(events[i])}
InteractiveSteps == {i \in 1..Len(events) : IsInteractive(events[i])}
Prompts == {i \in 1..Len(events) : IsPrompt(events[i])}
RefreshFailures == {i \in 1..Len(events) : IsRefreshFailure(events[i])}
RefreshRequests == {i \in 1..Len(events) : IsRefreshRequest(events[i])}
TokenRequests == {i \in 1..Len(events) : IsTokenRequest(events[i])}

\* the token file holds what login() found in it at the start
FileAsLoaded ==
    IF loaded = None THEN file = NoFile ELSE file.exists /\ JSONParse(file.text) = loaded

----------------------------------------------------------------------------
(* What the statements below compare the program against *)

\* the pasted URL has a query parameter named code
HasCodeParameter(url) == \E i \in 1..Len(url.query) : url.query[i][1] = "code"

\* the signature requests in the trace
SignatureCalls == {i \in ApiCalls : events[i].endpoint = "/user/self/signature"}

\* the thingName of the first device of the list the directory returned
SelectedThing == Get(ids.devices.list[1], "thingName")

DirectCommand(value) ==
    [topic |-> <<"da_ctrl", SelectedThing, "to_ncp">>,
     payload |-> [type |-> "command", cn |-> "setPort", ct |-> "mobile",
                  data |-> [portName |-> "Control", properties |-> [D0310C |-> value]]]]

ModeValues == [p \in {"/auto", "/low", "/medium", "/high"} |->
                 CASE p = "/auto" -> 0 [] p = "/low" -> 17 [] p = "/medium" -> 1
                   [] p = "/high" -> 18]

\* the step is the handling of a request for pathname p
Handles(p) == http'.requests = http.requests + 1 /\ http'.pathname = p

\* the desired-state message the shadow protocol asks for
ShadowUpdate(powerOn) ==
    [topic |-> <<"$aws/things", SelectedThing, "shadow/update">>,
     payload |-> [state |-> [desired |-> [powerOn |-> powerOn]]]]

CommandPaths == {"/on", "/off", "/auto", "/low", "/medium", "/high"}

----------------------------------------------------------------------------
(* C1: a persisted bundle whose expires_at is more than 60 seconds after the
   current time is returned by login() unchanged, in one step that sends no
   request, shows no URL, opens no prompt and leaves the token file alone. *)

C1_ValidBundleReturnedWithoutNetwork ==
    [][ (/\ pc = "start"
         /\ file.exists
         /\ Has(JSONParse(file.text), "expires_at")
         /\ JSONParse(file.text)["expires_at"] > now + 60000)
        => (/\ pc' = "login_returned"
            /\ held' = JSONParse(file.text)
            /\ events' = <<>>
            /\ file' = file) ]_vars

C1_Witness ==
    /\ pc = "login_returned"
    /\ loaded # None
    /\ held = loaded
    /\ Has(held, "expires_at") /\ held["expires_at"] = now + 60000 + TickMs
    /\ events = <<>>

(* C2: for a persisted bundle with expires_at <= now, or within 60 seconds of
   expiry, login() sends the refresh_token grant first; whenever a bundle was
   loaded, every interactive step (URL, prompt, code exchange) has a refresh
   request before it. *)

C2_RefreshBeforeInteractive ==
    /\ [][ (/\ pc = "start"
            /\ file.exists
            /\ Has(JSONParse(file.text), "expires_at")
            /\ JSONParse(file.text)["expires_at"] <= now + 60000)
           => (/\ Len(events') > 0
               /\ IsRefreshRequest(events'[Len(events')])
               /\ \A i \in 1..Len(events') : ~IsInteractive(events'[i])) ]_vars
    /\ [](loaded # None =>
            \A i \in InteractiveSteps : \E j \in RefreshRequests : j < i)

C2_Witness ==
    /\ pc = "exchanging"
    /\ loaded # None
    /\ Has(loaded, "expires_at") /\ loaded["expires_at"] <= now
    /\ RefreshRequests # {}
    /\ CodeRequests # {}

(* C3: after a failed refresh exactly one interactive login is made; when that
   login fails too the process has exited: one refresh request and one prompt
   in all, no directory call and no MQTT connection attempt. *)

C3_OneFallbackThenTerminal ==
    /\ RefreshFailures # {}
          => (/\ Cardinality(RefreshRequests) = 1
              /\ Cardinality(AuthUrls) = 1
              /\ Cardinality(Prompts) = 1
              /\ Cardinality(CodeRequests) <= 1)
    /\ (RefreshFailures # {} /\ LoginFailures # {})
          => (/\ pc = "exited"
              /\ LoginFailures = {Len(events)}
              /\ ApiCalls = {}
              /\ held = None
              /\ attempts = <<>> /\ mqtt = "none")

C3_Witness ==
    /\ pc = "exited"
    /\ RefreshFailures # {}
    /\ CodeRequests # {}
    /\ LoginFailures # {}

(* C4: when the pasted redirect URL has no `code` query parameter, login fails
   with the missing-code error, no authorization_code request is sent, no
   request at all follows the prompt, and the token file is not written. *)

C4_MissingCodeSendsNothing ==
    (pasted # None /\ pasted.parses /\ ~HasCodeParameter(pasted))
    => (/\ pc = "exited"
        /\ IsReport(events[Len(events)], "Login failed: No code found")
        /\ CodeRequests = {}
        /\ \A i \in TokenRequests : \A j \in Prompts : i < j
        /\ FileAsLoaded)

C4_Witness ==
    /\ pc = "exited"
    /\ pasted # None /\ pasted.parses /\ pasted.query # <<>> /\ ~HasCodeParameter(pasted)
    /\ loaded # None
    /\ TokenRequests # {}

(* C5: for both grants, when login() hands a newly issued bundle to its caller
   the token file already holds exactly that bundle; while no exchange has
   succeeded, whatever failed, the token file is as it was found. *)

C5_PersistedBeforeReturned ==
    /\ (pc = "login_returned" /\ TokenRequests # {})
          => (file.exists /\ JSONParse(file.text) = held)
    /\ pc \in {"refreshing", "prompt", "exchanging", "exited"}
          => (FileAsLoaded /\ held = None)

C5_Witness ==
    /\ pc = "login_returned"
    /\ RefreshFailures # {}
    /\ CodeRequests # {}
    /\ held # loaded
    /\ file.exists /\ JSONParse(file.text) = held

(* C6: when the device listing returns an empty sequence the condition is
   reported, main() returns without an error having been thrown, and neither
   a signature request nor an MQTT connection attempt is made. *)

C6_EmptyDeviceListEndsQuietly ==
    (Has(ids.devices, "list") /\ ids.devices.list = <<>>)
    => (/\ pc = "no_devices"
        /\ IsReport(events[Len(events)], "No devices found.")
        /\ ApplicationErrors = {}
        /\ SignatureCalls = {}
        /\ attempts = <<>> /\ mqtt = "none")

C6_Witness ==
    /\ pc = "no_devices"
    /\ Has(ids.devices, "list") /\ ids.devices.list = <<>>
    /\ Cardinality(ApiCalls) = 2
    /\ RefreshRequests # {}

(* C7: every MQTT connection attempt is made with the device's thingName, the
   authorizer signature and the bearer access token all defined. *)

C7_ConnectOnlyWithFullIdentity ==
    \A i \in 1..Len(attempts) :
        /\ thing # Undefined
        /\ attempts[i].signature # Undefined
        /\ attempts[i].token # Undefined

(* C8: /auto, /low, /medium and /high publish one Direct Command with the
   property value 0, 17, 1 and 18 to da_ctrl/{thingName}/to_ncp, with type
   "command", cn "setPort" and D0310C as the only property; nothing else is
   ever published on that topic. *)

C8_ModeValuesClosed ==
    /\ [][ \A p \in DOMAIN ModeValues :
              Handles(p) => published' = Append(published, DirectCommand(ModeValues[p])) ]_vars
    /\ [](\A i \in 1..Len(published) :
              published[i].topic[1] = "da_ctrl"
                 => \E p \in DOMAIN ModeValues : published[i] = DirectCommand(ModeValues[p]))

C8_Witness ==
    /\ http.pathname = "/high"
    /\ Len(published) >= 2
    /\ published[Len(published)] = DirectCommand(18)
    /\ published[1] = DirectCommand(17)

(* C9: /on and /off each publish exactly one message, powerOn true
   respectively false, to $aws/things/{thingName}/shadow/update of the first
   device of the list, and to no other topic. *)

C9_PowerPublishesShadowUpdate ==
    [][ /\ Handles("/on") => published' = Append(published, ShadowUpdate(TRUE))
        /\ Handles("/off") => published' = Append(published, ShadowUpdate(FALSE)) ]_vars

C9_Witness ==
    /\ http.pathname = "/off"
    /\ Len(ids.devices.list) = 2
    /\ Len(published) >= 2
    /\ published[Len(published)] = ShadowUpdate(FALSE)
    /\ published[1] = ShadowUpdate(TRUE)

(* C10: a command request is published and answered in the step that handles
   it, whether or not an accepted-topic message has arrived; while the server
   listens, every command can be handled, whatever the state of the MQTT
   client and however many messages have come in. *)

C10_CommandsNeverWaitForEchoes ==
    /\ [][ \A p \in CommandPaths :
              Handles(p) => (/\ http'.answered = http.answered + 1
                             /\ Len(published') = Len(published) + 1) ]_vars
    /\ []((pc = "running" /\ listening = 1 /\ http.requests < MaxRequests)
              => \A p \in CommandPaths : ENABLED HttpRequest(p))

C10_Witness ==
    /\ inbound = 0
    /\ mqtt = "offline"
    /\ http.requests >= 2
    /\ http.answered = http.requests
    /\ Len(published) = http.requests

----------------------------------------------------------------------------
(* Reading what was handed to saveTokens *)

IsSaveCall(e) == e.type = "save"
SaveCalls == {i \in 1..Len(events) : IsSaveCall(events[i])}

\* the answer of the token endpoint the last save was entered with
LastSaved == events[CHOOSE i \in SaveCalls : \A j \in SaveCalls : j <= i].tokens

TokenFields == {"access_token", "id_token", "refresh_token"}

(* C11: once a bundle has been saved, loading the token file gives back the
   access, id and refresh token the save was entered with, present or absent
   alike, and every other member as it was; expires_at is the only member the
   loaded bundle has beyond, or different from, what was handed to the save. *)

C11_SaveThenLoadKeepsTokens ==
    SaveCalls # {} =>
        /\ loadTokens # None
        /\ \A k \in TokenFields : Get(loadTokens, k) = Get(LastSaved, k)
        /\ DOMAIN loadTokens = DOMAIN LastSaved \cup {"expires_at"}
        /\ \A k \in DOMAIN LastSaved \ {"expires_at"} : loadTokens[k] = LastSaved[k]

C11_Witness ==
    /\ SaveCalls # {}
    /\ Has(LastSaved, "refresh_token")
    /\ Has(LastSaved, "expires_at")
    /\ loadTokens["refresh_token"] = LastSaved["refresh_token"]
    /\ loadTokens["expires_at"] # LastSaved["expires_at"]

\* the lifetime the answer states, in seconds; the default when it states none
StatedLifetime(tokens) ==
    IF Has(tokens, "expires_in") THEN tokens["expires_in"] ELSE DefaultExpiresIn

(* C12: after every save the expires_at in the token file is the time of the
   save plus the expires_in of the token endpoint's answer in seconds, 3600
   when the answer has no expires_in; an expires_at the answer carries itself
   is not what is stored. *)

C12_ExpiryFromExpiresIn ==
    SaveCalls # {} =>
        /\ loadTokens # None
        /\ loadTokens["expires_at"] = now + StatedLifetime(LastSaved) * MsPerSecond

\* the S256 challenge that belongs to a verifier
ChallengeOf(v) == <<"S256", v>>

\* the authorization URL shown last before position j of the trace
UrlBefore(j) == CHOOSE i \in AuthUrls : i < j /\ \A k \in AuthUrls : k < j => k <= i

(* C13: every authorization URL shown carries the S256 challenge of the
   verifier drawn for that attempt and the method S256, and has no member for
   the verifier; every authorization_code request follows such a URL and
   carries the verifier whose challenge that URL showed. *)

C13_ChallengeOutVerifierAtExchange ==
    /\ \A i \in AuthUrls :
          /\ DOMAIN events[i] = {"type", "code_challenge", "code_challenge_method"}
          /\ events[i].code_challenge_method = "S256"
          /\ \E v \in Verifiers : events[i].code_challenge = ChallengeOf(v)
    /\ AuthUrls # {} => events[UrlBefore(Len(events) + 1)].code_challenge = ChallengeOf(verifier)
    /\ \A j \in CodeRequests :
          /\ \E i \in AuthUrls : i < j
          /\ events[j].code_verifier \in Verifiers
          /\ events[UrlBefore(j)].code_challenge = ChallengeOf(events[j].code_verifier)

C13_Witness ==
    /\ CodeRequests # {}
    /\ RefreshFailures # {}
    /\ verifier = "v2"
    /\ \E j \in CodeRequests : events[j].code_verifier = "v2"

(* C14: no two connection attempts of the session, the automatic reconnects
   among them, use the same client id, and for every attempt a signature was
   requested from the directory. *)

C14_FreshGrantPerAttempt ==
    /\ \A i, j \in 1..Len(attempts) : i < j => attempts[i].clientId # attempts[j].clientId
    /\ Cardinality(SignatureCalls) >= Len(attempts)

\* the reports of a directory call answered with a status outside 200-299
IsApiError(e) ==
    e.type = "report" /\ \E r \in HttpRejections :
        e.msg = "Application Error: API Error " \o r.status \o ": " \o r.text
ApiErrors == {i \in 1..Len(events) : IsApiError(events[i])}

\* the endpoints of the directory calls made so far, in the order of the calls
CallsMade ==
    LET calls == SelectSeq(events, IsApiCall)
    IN  [i \in 1..Len(calls) |-> calls[i].endpoint]

(* C15: no directory endpoint is ever called twice; a report of a directory
   call answered outside 200-299 names the status and the body, stands right
   after that call and is the last thing the startup does: main() has
   returned, no connection attempt exists, and no step follows. *)

C15_RejectedCallEndsStartup ==
    /\ [](/\ \A i, j \in 1..Len(CallsMade) : i < j => CallsMade[i] # CallsMade[j]
          /\ \A i \in ApiErrors :
                /\ i = Len(events)
                /\ i > 1 /\ IsApiCall(events[i - 1])
                /\ pc = "app_error"
                /\ attempts = <<>> /\ mqtt = "none" /\ subs = <<>> /\ servers = 0)
    /\ [][(pc \in {"get_id", "get_devices", "get_sig"} /\ pc' = "app_error")
              => events' = Append(events, events'[Len(events')])
                 /\ IsApplicationError(events'[Len(events')])]_vars
    /\ [][pc # "app_error"]_vars

C15_Witness ==
    /\ pc = "app_error"
    /\ Len(CallsMade) = 3
    /\ IsReport(events[Len(events)], "Application Error: API Error 500: oops")

StartupOrder == <<"/user/self/get-id", "/user/self/device", "/user/self/signature">>

\* the answers and failures that ended a request to the token endpoint
TokenAnswers ==
    {i \in 1..Len(events) :
        \/ IsSaveCall(events[i])
        \/ IsRefreshFailure(events[i])
        \/ IsReport(events[i], "Login failed: fetch failed")
        \/ IsReport(events[i], "Login failed: invalid_grant")}

TokenRequestsInFlight == Cardinality(TokenRequests) - Cardinality(TokenAnswers)

\* how many directory calls have been made when the program stands at a step
CallsAt(step) ==
    CASE step \in {"start", "refreshing", "prompt", "exchanging", "exited", "login_returned"} -> {0}
      [] step = "get_id" -> {1}
      [] step = "get_devices" -> {2}
      [] step \in {"get_sig", "running", "crashed"} -> {3}
      [] step = "no_devices" -> {2}
      [] step = "app_error" -> {0, 1, 2, 3}

(* C16: the directory calls made so far are an initial part of account id,
   device list, signature, in that order; none is made before login() has
   returned a bundle, each is made only when the one before has been answered
   and its answer taken over, and a connection attempt exists only after the
   three of them; at most one request to the token endpoint is unanswered,
   exactly while login waits for it, and every token request precedes every
   directory call. *)

C16_StartupStepsInOrder ==
    /\ Len(CallsMade) <= 3
    /\ \A i \in 1..Len(CallsMade) : CallsMade[i] = StartupOrder[i]
    /\ Len(CallsMade) \in CallsAt(pc)
    /\ Len(CallsMade) >= 1 => held # None /\ ids.idToken = held["id_token"]
    /\ Len(CallsMade) >= 2 => pc = "app_error" \/ ids.userId # Undefined
    /\ Len(CallsMade) >= 3 => ids.devices # None /\ ids.myDevice = ids.devices.list[1]
    /\ (attempts # <<>> \/ mqtt # "none")
          => Len(CallsMade) = 3 /\ pc \in {"running", "crashed"}
    /\ TokenRequestsInFlight = (IF pc \in {"refreshing", "exchanging"} THEN 1 ELSE 0)
    /\ \A i \in TokenRequests : \A j \in ApiCalls : i < j
    /\ pc \in {"refreshing", "exchanging"} => IsTokenRequest(events[Len(events)])

C16_Witness ==
    /\ pc = "running"
    /\ Len(CallsMade) = 3
    /\ RefreshFailures # {}
    /\ Cardinality(TokenRequests) = 2
    /\ attempts # <<>>

\* the step is a connect event of the MQTT client
ConnectEvent == mqtt # "connected" /\ mqtt' = "connected"

\* the step is the arrival of a message on a subscribed topic
MessageEvent == inbound' = inbound + 1

(* C17: every connect event, the first and each one after a reconnect, issues
   a subscription to $aws/things/{thingName}/shadow/update/accepted for the
   selected device; the arrival of a message changes nothing but the count of
   messages that have arrived: no publish, no subscription, no change to the
   identity, the file, the trace or the control surface. *)

C17_SubscribeOnConnectIgnoreInbound ==
    /\ [][ConnectEvent
            => subs' = Append(subs, <<"$aws/things", SelectedThing, "shadow/update",
                                      "accepted">>)]_vars
    /\ [][MessageEvent
            => UNCHANGED <<now, file, pc, loaded, verifier, pasted, held, ids, events, mqtt,
                           attempts, subs, servers, listening, published, http>>]_vars

C17_Witness ==
    /\ Len(attempts) = 2
    /\ Len(subs) = 2
    /\ mqtt = "connected"
    /\ inbound = 1

\* the step is an event of the MQTT client: connect, close, reconnect, message
MqttEvent == mqtt' # mqtt \/ attempts' # attempts \/ inbound' # inbound

(* C18: whatever connect, close and reconnect events occur, at most one HTTP
   server has ever been created, at most one is bound, and no event of the
   MQTT client ends the process. *)

C18_OneListenerSurvivesReconnects ==
    /\ [](servers <= 1 /\ listening <= 1)
    /\ [][MqttEvent => pc' # "crashed"]_vars

\* login() has returned the bundle of a successful refresh
Refreshed == pc = "login_returned" /\ SaveCalls # {} /\ CodeRequests = {}

(* C19: when a refresh has succeeded, the token file and the bundle login()
   returns are the token endpoint's answer with expires_at set: they have the
   members of the answer and expires_at, no others, with the answer's values;
   a token the old bundle had and the answer has not is gone, and no token
   keeps its old value. *)

C19_RefreshReplacesBundle ==
    Refreshed =>
        /\ file.exists /\ JSONParse(file.text) = held
        /\ DOMAIN held = DOMAIN LastSaved \cup {"expires_at"}
        /\ \A k \in DOMAIN LastSaved \ {"expires_at"} : held[k] = LastSaved[k]
        /\ \A k \in TokenFields :
              /\ (Has(loaded, k) /\ ~Has(LastSaved, k)) => ~Has(held, k)
              /\ (Has(loaded, k) /\ Has(held, k)) => held[k] # loaded[k]

C19_Witness ==
    /\ Refreshed
    /\ Has(loaded, "refresh_token") /\ Has(loaded, "id_token")
    /\ ~Has(LastSaved, "refresh_token")
    /\ ~Has(loadTokens, "refresh_token")
    /\ loadTokens["id_token"] = "id_r"

\* the step is the arrival of a request at the control surface
RequestArrives == http'.requests = http.requests + 1

(* C20: a request to the control surface adds at most one message to what has
   been published; a request for anything but one of the six commands adds
   none and leaves the process, the MQTT client, its subscriptions and the
   listener as they were; nothing is published while no connect event has
   occurred. *)

C20_RequestsPublishAtMostOnce ==
    /\ [][RequestArrives => Len(published') <= Len(published) + 1]_vars
    /\ [][(RequestArrives /\ http'.pathname \notin CommandPaths)
            => /\ published' = published
               /\ UNCHANGED <<pc, ids, mqtt, attempts, subs, servers, listening, inbound>>]_vars
    /\ [](published # <<>> => subs # <<>>)

====
